---- MODULE Spec2Model ----
(***************************************************************************)
(* DeepBurnWatcher: the burn event monitoring engine of watch-deep-burn.   *)
(*                                                                         *)
(* The model follows the watcher class of the repository's main program    *)
(* (TREASURY_EVENTS, setupEventSubscription, setupAlternativeMonitoring,   *)
(* processBurnEvent, processBurnEventData, calculateBurnRates,             *)
(* fetchAllMetrics, cleanup).  Node runs every callback to completion, so  *)
(* one action is one macrotask: the code between two network responses or  *)
(* timer firings.  An `await` of an RPC splits a handler in two actions.   *)
(*                                                                         *)
(* Quantities are JavaScript numbers.  A number is the record              *)
(* [nan |-> BOOLEAN, v |-> Int]: NaN is a value of its own, and the finite *)
(* values the model uses are integers (the ledger inputs are whole         *)
(* multiples of 10^DEEP_DECIMALS, so the scaling division is exact).       *)
(* Times are milliseconds since the epoch, as Date.getTime() gives them.   *)
(***************************************************************************)
EXTENDS Integers, Sequences, FiniteSets, TLC

(***************************************************************************)
(* Program constants                                                       *)
(***************************************************************************)
DEEP_DECIMALS == 6

HistoryCap == 100

DayMs == 86400000

InitialSupply == 1000000000

HourMs == 3600 * 1000

\* this.refreshInterval as the constructor sets it.
DefaultRefreshMs == 15000

\* The least refresh interval the command line accepts.
RefreshFloorMs == 5000

\* TREASURY_EVENTS, by index; the eventType strings are kept short.
TREASURY_EVENTS == << "treasury::BurnEvent", "treasury::DeepBurnEvent", "deep::BurnEvent" >>

Topics == 1 .. Len(TREASURY_EVENTS)

FallbackMarker == "TreasuryBalanceDecrease"

(***************************************************************************)
(* JavaScript numbers                                                      *)
(***************************************************************************)
NaN == [nan |-> TRUE, v |-> 0]

Num(n) == [nan |-> FALSE, v |-> n]

JsAdd(a, b) == IF a.nan \/ b.nan THEN NaN ELSE Num(a.v + b.v)

JsSub(a, b) == IF a.nan \/ b.nan THEN NaN ELSE Num(a.v - b.v)

\* a / d for a finite non-zero integer d; exact on the multiples of d.
JsDivInt(a, d) == IF a.nan THEN NaN ELSE Num(a.v \div d)

\* a < b and a > b: every comparison with NaN is false.
JsLt(a, b) == ~a.nan /\ ~b.nan /\ a.v < b.v

JsGt(a, b) == ~a.nan /\ ~b.nan /\ a.v > b.v

\* Truthiness of a number: 0 and NaN are falsy.
NumTruthy(a) == ~a.nan /\ a.v # 0

RECURSIVE Pow10(_)
Pow10(k) == IF k = 0 THEN 1 ELSE 10 * Pow10(k - 1)

(***************************************************************************)
(* Loosely typed JSON values: undefined, null, a number, or a string (a    *)
(* sequence of one-character strings).                                     *)
(***************************************************************************)
Undefined == [t |-> "undefined", n |-> 0, s |-> << >>]

Null == [t |-> "null", n |-> 0, s |-> << >>]

NumV(k) == [t |-> "number", n |-> k, s |-> << >>]

StrV(chars) == [t |-> "string", n |-> 0, s |-> chars]

DigitChars == << "0", "1", "2", "3", "4", "5", "6", "7", "8", "9" >>

IsDigit(c) == \E i \in 1 .. 10 : DigitChars[i] = c

DigitVal(c) == (CHOOSE i \in 1 .. 10 : DigitChars[i] = c) - 1

RECURSIVE DigitsValue(_, _)
DigitsValue(chars, acc) ==
  IF chars = << >> THEN acc
  ELSE DigitsValue(Tail(chars), 10 * acc + DigitVal(Head(chars)))

AllDigits(chars) == chars # << >> /\ \A i \in 1 .. Len(chars) : IsDigit(chars[i])

\* Number(string): "" is 0, an optionally signed run of digits is its value,
\* anything else is NaN.
StringToNumber(chars) ==
  IF chars = << >> THEN Num(0)
  ELSE IF AllDigits(chars) THEN Num(DigitsValue(chars, 0))
  ELSE IF Head(chars) = "-" /\ AllDigits(Tail(chars))
       THEN Num(0 - DigitsValue(Tail(chars), 0))
  ELSE NaN

\* Number(x)
ToNumber(x) ==
  CASE x.t = "undefined" -> NaN
    [] x.t = "null" -> Num(0)
    [] x.t = "number" -> Num(x.n)
    [] x.t = "string" -> StringToNumber(x.s)

\* if (x): undefined, null, 0 and "" are falsy.
Truthy(x) ==
  CASE x.t = "undefined" -> FALSE
    [] x.t = "null" -> FALSE
    [] x.t = "number" -> x.n # 0
    [] x.t = "string" -> x.s # << >>

\* Whether a field is present in a payload at all.
Present(x) == x.t # "undefined"

\* The decimal string of a natural number (what the ledger sends).
RECURSIVE DecimalString(_)
DecimalString(n) ==
  IF n < 10 THEN << DigitChars[n + 1] >>
  ELSE Append(DecimalString(n \div 10), DigitChars[(n % 10) + 1])

(***************************************************************************)
(* Event Normalizer: the amount extraction of processBurnEvent             *)
(***************************************************************************)
\* Number(field) / Math.pow(10, this.DEEP_DECIMALS)
ScaleRaw(x) == JsDivInt(ToNumber(x), Pow10(DEEP_DECIMALS))

\* ExtractAmount as it would be with `let amount;` in place of `let amount = 0;`.
ExtractAmountNoDefault(parsedJson) ==
  IF Truthy(parsedJson.amount) THEN ScaleRaw(parsedJson.amount)
  ELSE IF Truthy(parsedJson.value) THEN ScaleRaw(parsedJson.value)
  ELSE IF Truthy(parsedJson.burned_amount) THEN ScaleRaw(parsedJson.burned_amount)
  ELSE NaN

ExtractAmount(parsedJson) ==
  IF Truthy(parsedJson.amount) THEN ScaleRaw(parsedJson.amount)
  ELSE IF Truthy(parsedJson.value) THEN ScaleRaw(parsedJson.value)
  ELSE IF Truthy(parsedJson.burned_amount) THEN ScaleRaw(parsedJson.burned_amount)
  ELSE Num(0)

\* A transaction id: a digest of the ledger (n is 0), or the generated
\* `treasury-${Date.now()}` of the fallback poller (n is the time).
TxId(prefix, n) == [prefix |-> prefix, n |-> n]

\* The BurnEvent built by processBurnEvent from a raw SuiEvent.
NormalizeEvent(event, eventType) ==
  [ txId |-> TxId(event.txDigest, 0),
    amount |-> ExtractAmount(event.parsedJson),
    timestamp |-> ToNumber(event.timestampMs),
    eventType |-> eventType ]

(***************************************************************************)
(* Metrics Aggregator: pure parts                                          *)
(***************************************************************************)
\* InLast24h as it would be with <= in place of <.
InLast24hInclusive(event, now) ==
  LET age == JsSub(Num(now), event.timestamp)
  IN ~age.nan /\ age.v <= DayMs

\* The predicate of the filter in calculateBurnRates:
\* now - event.timestamp.getTime() < 86400000
InLast24h(event, now) == JsLt(JsSub(Num(now), event.timestamp), Num(DayMs))

\* burnEvents.filter(...)
Filter24h(events, now) == SelectSeq(events, LAMBDA event : InLast24h(event, now))

\* events[lo].amount + ... + events[hi].amount, for lo <= hi.  reduce adds
\* from left to right; the numbers of the model are integers and NaN, whose
\* addition is associative, so the sum is evaluated by halves to keep the
\* evaluation shallow on a history of HistoryCap events.
RECURSIVE AddAmounts(_, _, _)
AddAmounts(events, lo, hi) ==
  IF lo = hi THEN events[lo].amount
  ELSE JsAdd(AddAmounts(events, lo, (lo + hi) \div 2),
             AddAmounts(events, ((lo + hi) \div 2) + 1, hi))

\* burns24h.reduce((sum, event) => sum + event.amount, 0)
ReduceAmounts(events, sum) ==
  IF events = << >> THEN sum ELSE JsAdd(sum, AddAmounts(events, 1, Len(events)))

\* The value calculateBurnRates stores in burnRate24h.
BurnRate24h(events, now) == ReduceAmounts(Filter24h(events, now), Num(0))

\* PushCapped as it would be if the history were kept ordered by timestamp,
\* newest timestamp first.
PushByTimestamp(events, e) ==
  LET newer == SelectSeq(events, LAMBDA x : JsGt(x.timestamp, e.timestamp))
      others == SelectSeq(events, LAMBDA x : ~JsGt(x.timestamp, e.timestamp))
      all == newer \o << e >> \o others
  IN IF Len(all) > HistoryCap THEN SubSeq(all, 1, HistoryCap) ELSE all

\* PushCapped as it would be with the slice left out.
PushUncapped(events, e) == << e >> \o events

\* unshift followed by the slice(0, 100) of processBurnEventData.
PushCapped(events, e) ==
  IF Len(<< e >> \o events) > HistoryCap
  THEN SubSeq(<< e >> \o events, 1, HistoryCap)
  ELSE << e >> \o events

(***************************************************************************)
(* RPC collaborator: the responses the code interprets                     *)
(***************************************************************************)
\* getTreasuryBalance on a getObject response: [ok, deep_supply, balance,
\* total_supply]; ok is false when the call throws or the content is no
\* moveObject.
TreasuryBalanceOf(resp) ==
  IF ~resp.ok THEN Num(0)
  ELSE IF Truthy(resp.deep_supply) THEN ScaleRaw(resp.deep_supply)
  ELSE IF Truthy(resp.balance) THEN ScaleRaw(resp.balance)
  ELSE IF Truthy(resp.total_supply) THEN ScaleRaw(resp.total_supply)
  ELSE Num(0)

\* coins.data.reduce over the page the getAllCoins response carries.
RECURSIVE SumCoins(_, _)
SumCoins(data, sum) ==
  IF data = << >> THEN sum
  ELSE SumCoins(Tail(data), JsAdd(sum, ScaleRaw(Head(data))))

\* getCirculatingSupply on a getAllCoins response: [ok, data, hasNextPage].
CirculatingSupplyOf(resp) == IF ~resp.ok THEN Num(0) ELSE SumCoins(resp.data, Num(0))

\* getTotalSupply: this.metrics.currentSupply || 1000000000, on success and
\* on failure alike.
TotalSupplyOf(m) == IF NumTruthy(m.currentSupply) THEN m.currentSupply ELSE Num(InitialSupply)

(***************************************************************************)
(* Bounds of the model                                                     *)
(***************************************************************************)
\* Burn events applied in one run of Spec.
MaxEvents == 1

\* Burn events applied in one run of SpecNormalizer.
MaxNormEvents == 1

\* Burn events applied in one run of SpecWarm.
MaxWarmEvents == 2

\* Timer firings in one run: refresh timer, fallback interval and clock hours.
MaxTimers == 1

\* The wall clock at startup: two days after the epoch, in hours.
StartHours == 48

\* Calls of cleanup() one run of SpecCleanup makes on an open subscription.
MaxCleanups == 2

\* Burn events applied in one run of SpecPoll.
MaxPollEvents == 2

\* Timer firings in one run of SpecPoll.
MaxPollTimers == 5

\* Burn events applied in one run of SpecRefresh.
MaxRefreshEvents == 1

\* Timer firings in one run of SpecRefresh.
MaxRefreshTimers == 2

\* The wall clock at startup, in milliseconds.
StartMs == StartHours * HourMs

(***************************************************************************)
(* Inputs                                                                  *)
(***************************************************************************)
Payload(a, v, b) == [amount |-> a, value |-> v, burned_amount |-> b]

RawEvent(topic, digest, parsedJson, timestampMs) ==
  [topic |-> topic, txDigest |-> digest, parsedJson |-> parsedJson, timestampMs |-> timestampMs]

\* The ledger's timestampMs for an event h hours before (after, h < 0) time t.
StampHoursAgo(t, h) == StrV(DecimalString(t - h * HourMs))

OneDeep == StrV(DecimalString(Pow10(DEEP_DECIMALS)))

TwoDeep == StrV(DecimalString(2 * Pow10(DEEP_DECIMALS)))

ThreeDeep == StrV(DecimalString(3 * Pow10(DEEP_DECIMALS)))

MinusOneDeep == StrV(<< "-" >> \o DecimalString(Pow10(DEEP_DECIMALS)))

NotANumber == StrV(<< "a", "b", "c" >>)

\* The raw events of Spec, before the topic is known: each candidate field
\* alone, stamped at startup, 23 hours and 25 hours before it, and a negative
\* amount that carries no timestamp.
LedgerFeed ==
  { RawEvent(0, "txA", Payload(OneDeep, Undefined, Undefined), StampHoursAgo(StartMs, 0)),
    RawEvent(0, "txB", Payload(Undefined, TwoDeep, Undefined), StampHoursAgo(StartMs, 23)),
    RawEvent(0, "txA", Payload(Undefined, Undefined, ThreeDeep), StampHoursAgo(StartMs, 25)),
    RawEvent(0, "txB", Payload(MinusOneDeep, Undefined, Undefined), Undefined) }

\* The events topic delivers in Spec.
LedgerEvents(topic) == { [e EXCEPT !.topic = topic] : e \in LedgerFeed }

\* The values a payload field takes in SpecNormalizer.
FieldValues == { Undefined, NumV(0), StrV(<< >>), OneDeep, TwoDeep, NotANumber, MinusOneDeep }

NormalizerEvents(topic, t) ==
  { RawEvent(topic, "txA", Payload(a, v, b), StampHoursAgo(t, 0)) :
      a \in FieldValues, v \in FieldValues, b \in FieldValues }

TreasuryResponse(ok, d, b, s) == [ok |-> ok, deep_supply |-> d, balance |-> b, total_supply |-> s]

\* getObject responses: a failure, the balance under two of the field names,
\* and a balance that is no number.
TreasuryResponses ==
  { TreasuryResponse(FALSE, Undefined, Undefined, Undefined),
    TreasuryResponse(TRUE, ThreeDeep, Undefined, Undefined),
    TreasuryResponse(TRUE, Undefined, TwoDeep, Undefined),
    TreasuryResponse(TRUE, NotANumber, Undefined, Undefined) }

CoinsResponse(ok, data, more) == [ok |-> ok, data |-> data, hasNextPage |-> more]

\* getAllCoins responses: a failure, and one page of two coins.
CoinsResponses ==
  { CoinsResponse(FALSE, << >>, FALSE),
    CoinsResponse(TRUE, << OneDeep, TwoDeep >>, FALSE) }

\* The coins the ledger holds on the pages after the one a getAllCoins
\* response carries: none unless the response says hasNextPage.
NextPages(resp) == IF resp.hasNextPage THEN << TwoDeep >> ELSE << >>

\* getAllCoins responses of SpecRefresh: those of Spec, and a first page of
\* one coin with a page to follow.
PagedCoinsResponses == CoinsResponses \cup { CoinsResponse(TRUE, << OneDeep >>, TRUE) }

\* getObject responses of SpecRefresh: a failure and two balances.
RefreshTreasuryResponses ==
  { TreasuryResponse(FALSE, Undefined, Undefined, Undefined),
    TreasuryResponse(TRUE, ThreeDeep, Undefined, Undefined),
    TreasuryResponse(TRUE, Undefined, TwoDeep, Undefined) }

(***************************************************************************)
(* State                                                                   *)
(***************************************************************************)
VARIABLES
  metrics,              \* this.metrics
  unsubscribe,          \* this.unsubscribe: the topics whose unsubscribe functions
                        \* it chains, in call order; << >> is null
  pc,                   \* where initialize() stands: "constructed", "fetching",
                        \* "subscribing", "running", "exited"
  subIdx,               \* the topic whose subscribeEvent call is awaited
  fetches,              \* the fetchAllMetrics calls suspended at Promise.all
  refreshTimer,         \* the setInterval of initialize() is set
  fallbackStarted,      \* how often setupAlternativeMonitoring set its interval
  lastTreasuryBalance,  \* the closure variable of setupAlternativeMonitoring
  pollsInFlight,        \* fallback callbacks suspended at getTreasuryBalance
  now,                  \* Date.now()
  failedTopics,         \* topics whose subscribeEvent call was rejected
  attempts,             \* subscribeEvent calls made, per topic
  unsubCalls,           \* calls of each topic's unsubscribe function
  applied,              \* every BurnEvent handed to processBurnEventData, in order
  lastRaw,              \* the raw event and topic of the last processBurnEvent call
  lastPolled,           \* what getTreasuryBalance returned to the last fallback callback
  budget,               \* burn events this run may still apply
  timers,               \* timer firings this run may still see
  refreshInterval,      \* this.refreshInterval, in milliseconds
  inflight              \* the balances the ledger has read for the getObject calls
                        \* of suspended fallback callbacks, in call order (SpecPoll)

vars == << metrics, unsubscribe, pc, subIdx, fetches, refreshTimer, fallbackStarted,
           lastTreasuryBalance, pollsInFlight, now, failedTopics, attempts, unsubCalls,
           applied, lastRaw, lastPolled, budget, timers, refreshInterval,
           inflight >>

NoRaw == [topic |-> 0, txDigest |-> "", parsedJson |-> [amount |-> Undefined, value |-> Undefined, burned_amount |-> Undefined], timestampMs |-> Undefined]

\* The metrics object the constructor builds.
InitialMetrics ==
  [ currentSupply |-> Num(0),
    totalBurned |-> Num(0),
    burnRate24h |-> Num(0),
    lastBurnTx |-> TxId("", 0),
    lastBurnAmount |-> Num(0),
    lastBurnTimestamp |-> Num(0),
    treasuryBalance |-> Num(0),
    burnEvents |-> << >>,
    circulatingSupply |-> Num(0) ]

PendingFetch == [sDone |-> FALSE, s |-> Num(0)]

Init ==
  /\ metrics = InitialMetrics
  /\ unsubscribe = << >>
  /\ pc = "constructed"
  /\ subIdx = 0
  /\ fetches = << >>
  /\ refreshTimer = FALSE
  /\ fallbackStarted = 0
  /\ lastTreasuryBalance = Num(0)
  /\ pollsInFlight = 0
  /\ now = StartMs
  /\ failedTopics = {}
  /\ attempts = [t \in Topics |-> 0]
  /\ unsubCalls = [t \in Topics |-> 0]
  /\ applied = << >>
  /\ lastRaw = NoRaw
  /\ lastPolled = Num(0)
  /\ budget = MaxEvents
  /\ timers = MaxTimers
  /\ refreshInterval = DefaultRefreshMs
  /\ inflight = << >>

(***************************************************************************)
(* Metrics Aggregator                                                      *)
(***************************************************************************)
\* ProcessBurnEventData as it would be if calculateBurnRates were called before
\* the event is put into the history.
ProcessBurnEventDataRateFirst(m, burnEvent, t) ==
  [ m EXCEPT
      !.burnEvents = PushCapped(m.burnEvents, burnEvent),
      !.totalBurned = JsAdd(m.totalBurned, burnEvent.amount),
      !.currentSupply = JsSub(m.currentSupply, burnEvent.amount),
      !.lastBurnTx = burnEvent.txId,
      !.lastBurnAmount = burnEvent.amount,
      !.lastBurnTimestamp = burnEvent.timestamp,
      !.burnRate24h = BurnRate24h(m.burnEvents, t) ]

\* ProcessBurnEventData as it would be if a burn were also taken off
\* circulatingSupply.
ProcessBurnEventDataCirculating(m, burnEvent, t) ==
  [ m EXCEPT
      !.burnEvents = PushCapped(m.burnEvents, burnEvent),
      !.totalBurned = JsAdd(m.totalBurned, burnEvent.amount),
      !.currentSupply = JsSub(m.currentSupply, burnEvent.amount),
      !.circulatingSupply = JsSub(m.circulatingSupply, burnEvent.amount),
      !.lastBurnTx = burnEvent.txId,
      !.lastBurnAmount = burnEvent.amount,
      !.lastBurnTimestamp = burnEvent.timestamp,
      !.burnRate24h = BurnRate24h(PushCapped(m.burnEvents, burnEvent), t) ]

\* processBurnEventData at time t.
ProcessBurnEventData(m, burnEvent, t) ==
  [ m EXCEPT
      !.burnEvents = PushCapped(m.burnEvents, burnEvent),
      !.totalBurned = JsAdd(m.totalBurned, burnEvent.amount),
      !.currentSupply = JsSub(m.currentSupply, burnEvent.amount),
      !.lastBurnTx = burnEvent.txId,
      !.lastBurnAmount = burnEvent.amount,
      !.lastBurnTimestamp = burnEvent.timestamp,
      !.burnRate24h = BurnRate24h(PushCapped(m.burnEvents, burnEvent), t) ]

\* ApplyRefresh as it would be without the call of calculateBurnRates.
ApplyRefreshStaleRate(m, f, t) ==
  [ m EXCEPT
      !.currentSupply = f.s,
      !.treasuryBalance = f.t,
      !.circulatingSupply = f.c ]

\* The assignments of fetchAllMetrics once Promise.all has resolved.
ApplyRefresh(m, f, t) ==
  [ m EXCEPT
      !.currentSupply = f.s,
      !.treasuryBalance = f.t,
      !.circulatingSupply = f.c,
      !.burnRate24h = BurnRate24h(m.burnEvents, t) ]

(***************************************************************************)
(* initialize() and fetchAllMetrics()                                      *)
(***************************************************************************)
Remove(seq, i) == SubSeq(seq, 1, i - 1) \o SubSeq(seq, i + 1, Len(seq))

\* The longest run of digits at the head of a string.
RECURSIVE DigitPrefix(_)
DigitPrefix(chars) ==
  IF chars = << >> \/ ~IsDigit(Head(chars)) THEN << >>
  ELSE << Head(chars) >> \o DigitPrefix(Tail(chars))

\* parseInt(string): an optional sign and the digits that follow it; NaN when
\* there is no digit.
ParseInt(chars) ==
  LET neg == chars # << >> /\ Head(chars) = "-"
      digits == DigitPrefix(IF neg THEN Tail(chars) ELSE chars)
  IN IF digits = << >> THEN NaN
     ELSE IF neg THEN Num(0 - DigitsValue(digits, 0))
     ELSE Num(DigitsValue(digits, 0))

\* a >= b: false when either is NaN.
JsGe(a, b) == ~a.nan /\ ~b.nan /\ a.v >= b.v

\* parseInt(options.refresh) * 1000
RequestedInterval(option) ==
  IF ParseInt(option).nan THEN NaN ELSE Num(ParseInt(option).v * 1000)

\* The refresh interval after the option handling of the command's action,
\* for a watcher whose interval was current.
EffectiveInterval(option, current) ==
  IF option # << >> /\ JsGe(RequestedInterval(option), Num(RefreshFloorMs))
  THEN RequestedInterval(option).v
  ELSE current

\* The default of the --refresh option.
DefaultOption == << "1", "5" >>

\* The values of the --refresh option in SpecCli.
CliOptions ==
  { DefaultOption, << "1" >>, << "4" >>, << "5" >>, << "6", "0" >>, << "0" >>,
    << "-", "1" >>, << "4", "x" >>, << "a", "b", "c" >>, << >> }

\* The command's action with --refresh option: the option handling, then
\* initialize(), which logs and calls fetchAllMetrics, which issues its three
\* queries and suspends at Promise.all.
Launch(option) ==
  /\ pc = "constructed"
  /\ refreshInterval' = EffectiveInterval(option, refreshInterval)
  /\ pc' = "fetching"
  /\ fetches' = << PendingFetch >>
  /\ UNCHANGED << inflight, metrics, unsubscribe, subIdx, refreshTimer, fallbackStarted,
                  lastTreasuryBalance, pollsInFlight, now, failedTopics, attempts,
                  unsubCalls, applied, lastRaw, lastPolled, budget, timers >>

\* The command's action when --refresh is not given, up to the Promise.all of
\* the first fetchAllMetrics.
Initialize == Launch(DefaultOption)

\* getCoinMetadata returns (or throws) to fetch i while another query of the
\* fetch is still out: getTotalSupply yields this.metrics.currentSupply ||
\* 1000000000 as it is now.
SupplyResolved(i) ==
  /\ pc \in {"fetching", "subscribing", "running"}
  /\ ~fetches[i].sDone
  /\ fetches' = [fetches EXCEPT ![i] = [sDone |-> TRUE, s |-> TotalSupplyOf(metrics)]]
  /\ UNCHANGED << inflight, refreshInterval, metrics, unsubscribe, pc, subIdx, refreshTimer, fallbackStarted,
                  lastTreasuryBalance, pollsInFlight, now, failedTopics, attempts,
                  unsubCalls, applied, lastRaw, lastPolled, budget, timers >>

\* The three values Promise.all resolves to for fetch i, when its last query
\* returns with the getObject response tresp and the getAllCoins response cresp.
\* The arrival of these two responses changes nothing before Promise.all
\* resolves, so it is part of this step; the supply is the one read earlier, or
\* read now when getCoinMetadata is the last to return.
FetchedValues(i, tresp, cresp) ==
  [ s |-> IF fetches[i].sDone THEN fetches[i].s ELSE TotalSupplyOf(metrics),
    t |-> TreasuryBalanceOf(tresp),
    c |-> CirculatingSupplyOf(cresp) ]

\* The last query of fetch i returns: Promise.all resolves and fetchAllMetrics
\* assigns the snapshot.  The first fetch then lets initialize() go on to
\* setupEventSubscription, which calls subscribeEvent for the first topic.
FetchSettled(i, tresp, cresp) ==
  /\ pc \in {"fetching", "subscribing", "running"}
  /\ fetches' = Remove(fetches, i)
  /\ metrics' = ApplyRefresh(metrics, FetchedValues(i, tresp, cresp), now)
  /\ IF pc = "fetching"
     THEN /\ pc' = "subscribing"
          /\ subIdx' = 1
          /\ attempts' = [attempts EXCEPT ![1] = @ + 1]
     ELSE UNCHANGED << pc, subIdx, attempts >>
  /\ UNCHANGED << inflight, refreshInterval, unsubscribe, refreshTimer, fallbackStarted, lastTreasuryBalance,
                  pollsInFlight, now, failedTopics, unsubCalls, applied, lastRaw, lastPolled,
                  budget, timers >>

\* The refresh timer fires: fetchAllMetrics issues its queries and suspends.
RefreshTick ==
  /\ pc = "running"
  /\ refreshTimer
  /\ timers > 0
  /\ timers' = timers - 1
  /\ fetches' = Append(fetches, PendingFetch)
  /\ UNCHANGED << inflight, refreshInterval, metrics, unsubscribe, pc, subIdx, refreshTimer, fallbackStarted,
                  lastTreasuryBalance, pollsInFlight, now, failedTopics, attempts,
                  unsubCalls, applied, lastRaw, lastPolled, budget >>

(***************************************************************************)
(* setupEventSubscription()                                                *)
(***************************************************************************)
\* NextTopic as it would be if the fallback were set up whenever the last
\* attempt failed, whatever the chain holds.
NextTopicFallbackOnLastFailure(u) ==
  /\ unsubscribe' = u
  /\ IF subIdx < Len(TREASURY_EVENTS)
     THEN /\ subIdx' = subIdx + 1
          /\ attempts' = [attempts EXCEPT ![subIdx + 1] = @ + 1]
          /\ UNCHANGED << pc, refreshTimer, fallbackStarted, lastTreasuryBalance >>
     ELSE /\ subIdx' = 0
          /\ pc' = "running"
          /\ refreshTimer' = TRUE
          /\ UNCHANGED attempts
          /\ IF u = unsubscribe
             THEN /\ fallbackStarted' = fallbackStarted + 1
                  /\ lastTreasuryBalance' = metrics.treasuryBalance
             ELSE UNCHANGED << fallbackStarted, lastTreasuryBalance >>

\* The loop of setupEventSubscription after the attempt on topic subIdx, with
\* the chain of unsubscribe functions now u.  After the last topic: the
\* fallback is set up when the chain is still null, setupEventSubscription
\* returns and initialize() sets the refresh timer.
NextTopic(u) ==
  /\ unsubscribe' = u
  /\ IF subIdx < Len(TREASURY_EVENTS)
     THEN /\ subIdx' = subIdx + 1
          /\ attempts' = [attempts EXCEPT ![subIdx + 1] = @ + 1]
          /\ UNCHANGED << pc, refreshTimer, fallbackStarted, lastTreasuryBalance >>
     ELSE /\ subIdx' = 0
          /\ pc' = "running"
          /\ refreshTimer' = TRUE
          /\ UNCHANGED attempts
          /\ IF u = << >>
             THEN /\ fallbackStarted' = fallbackStarted + 1
                  /\ lastTreasuryBalance' = metrics.treasuryBalance
             ELSE UNCHANGED << fallbackStarted, lastTreasuryBalance >>

\* subscribeEvent resolves for topic subIdx.
SubscribeOk ==
  /\ pc = "subscribing"
  /\ NextTopic(Append(unsubscribe, subIdx))
  /\ UNCHANGED << inflight, refreshInterval, metrics, fetches, pollsInFlight, now, failedTopics, unsubCalls,
                  applied, lastRaw, lastPolled, budget, timers >>

\* SubscribeFail as it would be if the catch also dropped the chain built so far.
SubscribeFailDiscarding ==
  /\ pc = "subscribing"
  /\ NextTopic(<< >>)
  /\ failedTopics' = failedTopics \cup {subIdx}
  /\ UNCHANGED << inflight, refreshInterval, metrics, fetches, pollsInFlight, now, unsubCalls, applied, lastRaw,
                  lastPolled, budget, timers >>

\* subscribeEvent rejects for topic subIdx: the inner catch logs it.
SubscribeFail ==
  /\ pc = "subscribing"
  /\ NextTopic(unsubscribe)
  /\ failedTopics' = failedTopics \cup {subIdx}
  /\ UNCHANGED << inflight, refreshInterval, metrics, fetches, pollsInFlight, now, unsubCalls, applied, lastRaw, lastPolled,
                  budget, timers >>

\* The topics whose subscription is open.
Subscribed == { unsubscribe[i] : i \in 1 .. Len(unsubscribe) }

(***************************************************************************)
(* processBurnEvent(): the onMessage callback of a subscription            *)
(***************************************************************************)
DeliverEvent(event) ==
  /\ pc \in {"subscribing", "running"}
  /\ event.topic \in Subscribed
  /\ budget > 0
  /\ budget' = budget - 1
  /\ metrics' = ProcessBurnEventData(metrics, NormalizeEvent(event, TREASURY_EVENTS[event.topic]), now)
  /\ applied' = Append(applied, NormalizeEvent(event, TREASURY_EVENTS[event.topic]))
  /\ lastRaw' = event
  /\ UNCHANGED << inflight, refreshInterval, unsubscribe, pc, subIdx, fetches, refreshTimer, fallbackStarted,
                  lastTreasuryBalance, pollsInFlight, now, failedTopics, attempts,
                  unsubCalls, lastPolled, timers >>

(***************************************************************************)
(* setupAlternativeMonitoring(): the fallback poller                       *)
(***************************************************************************)
\* The interval fires: the callback calls getTreasuryBalance and suspends.
\* (What the ledger reads for the call is the specification's to say.)
PollTick ==
  /\ pc = "running"
  /\ fallbackStarted > 0
  /\ timers > 0
  /\ timers' = timers - 1
  /\ pollsInFlight' = pollsInFlight + 1
  /\ UNCHANGED << refreshInterval, metrics, unsubscribe, pc, subIdx, fetches, refreshTimer,
                  fallbackStarted, lastTreasuryBalance, now, failedTopics, attempts,
                  unsubCalls, applied, lastRaw, lastPolled, budget >>

\* The event the poller synthesizes at time t for a decrease of balanceChange.
TreasuryBurn(balanceChange, t) ==
  [ txId |-> TxId("treasury-", t),
    amount |-> balanceChange,
    timestamp |-> Num(t),
    eventType |-> FallbackMarker ]

\* PollResolved as it would be if the previous balance were updated only when a
\* burn is synthesized.
PollResolvedKeepingPrevious(resp) ==
  /\ pc = "running"
  /\ pollsInFlight > 0
  /\ budget > 0
  /\ pollsInFlight' = pollsInFlight - 1
  /\ LET currentTreasuryBalance == TreasuryBalanceOf(resp)
         balanceChange == JsSub(lastTreasuryBalance, currentTreasuryBalance)
     IN /\ IF JsGt(balanceChange, Num(0))
           THEN /\ metrics' = ProcessBurnEventData(metrics, TreasuryBurn(balanceChange, now), now)
                /\ applied' = Append(applied, TreasuryBurn(balanceChange, now))
                /\ budget' = budget - 1
                /\ lastTreasuryBalance' = currentTreasuryBalance
           ELSE UNCHANGED << metrics, applied, budget, lastTreasuryBalance >>
        /\ lastPolled' = currentTreasuryBalance
  /\ UNCHANGED << refreshInterval, unsubscribe, pc, subIdx, fetches, refreshTimer, fallbackStarted, now,
                  failedTopics, attempts, unsubCalls, lastRaw, timers >>

\* getTreasuryBalance has returned to a suspended callback, the getObject
\* response being resp.
PollResolved(resp) ==
  /\ pc = "running"
  /\ pollsInFlight > 0
  /\ budget > 0
  /\ pollsInFlight' = pollsInFlight - 1
  /\ LET currentTreasuryBalance == TreasuryBalanceOf(resp)
         balanceChange == JsSub(lastTreasuryBalance, currentTreasuryBalance)
     IN /\ IF JsGt(balanceChange, Num(0))
           THEN /\ metrics' = ProcessBurnEventData(metrics, TreasuryBurn(balanceChange, now), now)
                /\ applied' = Append(applied, TreasuryBurn(balanceChange, now))
                /\ budget' = budget - 1
           ELSE UNCHANGED << metrics, applied, budget >>
        /\ lastTreasuryBalance' = currentTreasuryBalance
        /\ lastPolled' = currentTreasuryBalance
  /\ UNCHANGED << refreshInterval, unsubscribe, pc, subIdx, fetches, refreshTimer, fallbackStarted, now,
                  failedTopics, attempts, unsubCalls, lastRaw, timers >>

(***************************************************************************)
(* cleanup() and the clock                                                 *)
(***************************************************************************)
\* How often topic t stands in the chain.
Chained(t) == Cardinality({ i \in 1 .. Len(unsubscribe) : unsubscribe[i] = t })

\* Shutdown as it would be if this.unsubscribe held only the function of the
\* subscription opened last.
ShutdownLastOnly ==
  /\ pc \in {"fetching", "subscribing", "running"}
  /\ pc' = "exited"
  /\ unsubCalls' = [t \in Topics |->
                      IF unsubscribe # << >> /\ unsubscribe[Len(unsubscribe)] = t
                      THEN unsubCalls[t] + 1 ELSE unsubCalls[t]]
  /\ UNCHANGED << inflight, refreshInterval, metrics, unsubscribe, subIdx, fetches, refreshTimer, fallbackStarted,
                  lastTreasuryBalance, pollsInFlight, now, failedTopics, attempts,
                  applied, lastRaw, lastPolled, budget, timers >>

\* SIGINT or SIGTERM: cleanup() calls the chain, then process.exit(0).
Shutdown ==
  /\ pc \in {"fetching", "subscribing", "running"}
  /\ pc' = "exited"
  /\ unsubCalls' = [t \in Topics |-> unsubCalls[t] + Chained(t)]
  /\ UNCHANGED << inflight, refreshInterval, metrics, unsubscribe, subIdx, fetches, refreshTimer, fallbackStarted,
                  lastTreasuryBalance, pollsInFlight, now, failedTopics, attempts,
                  applied, lastRaw, lastPolled, budget, timers >>

\* An hour passes.
Tick ==
  /\ pc \in {"fetching", "subscribing", "running"}
  /\ timers > 0
  /\ timers' = timers - 1
  /\ now' = now + HourMs
  /\ UNCHANGED << inflight, refreshInterval, metrics, unsubscribe, pc, subIdx, fetches, refreshTimer,
                  fallbackStarted, lastTreasuryBalance, pollsInFlight, failedTopics,
                  attempts, unsubCalls, applied, lastRaw, lastPolled, budget >>

(***************************************************************************)
(* Specifications                                                          *)
(***************************************************************************)
Next ==
  \/ Initialize
  \/ \E i \in 1 .. Len(fetches) : SupplyResolved(i)
  \/ \E i \in 1 .. Len(fetches), tresp \in TreasuryResponses, cresp \in CoinsResponses :
       FetchSettled(i, tresp, cresp)
  \/ RefreshTick
  \/ SubscribeOk
  \/ SubscribeFail
  \/ \E t \in Topics : \E event \in LedgerEvents(t) : DeliverEvent(event)
  \/ (PollTick /\ UNCHANGED inflight)
  \/ \E resp \in TreasuryResponses : (PollResolved(resp) /\ UNCHANGED inflight)
  \/ Shutdown
  \/ Tick

Spec == Init /\ [][Next]_vars

(***************************************************************************)
(* The watcher once initialize() has returned                              *)
(***************************************************************************)
Range(seq) == { seq[i] : i \in 1 .. Len(seq) }

\* The snapshot after the first fetchAllMetrics, with treasury balance tb and
\* circulating supply cs.
StartedMetrics(tb, cs) ==
  ApplyRefresh(InitialMetrics, [s |-> TotalSupplyOf(InitialMetrics), t |-> tb, c |-> cs], StartMs)

\* The state in which initialize() leaves the watcher when the topics of the
\* chain u subscribed and the others failed, with snapshot m, b burn events
\* and k timer firings still to come.
Started(u, m, b, k) ==
  /\ metrics = m
  /\ unsubscribe = u
  /\ pc = "running"
  /\ subIdx = 0
  /\ fetches = << >>
  /\ refreshTimer = TRUE
  /\ fallbackStarted = (IF u = << >> THEN 1 ELSE 0)
  /\ lastTreasuryBalance = (IF u = << >> THEN m.treasuryBalance ELSE Num(0))
  /\ pollsInFlight = 0
  /\ now = StartMs
  /\ failedTopics = Topics \ Range(u)
  /\ attempts = [t \in Topics |-> 1]
  /\ unsubCalls = [t \in Topics |-> 0]
  /\ lastRaw = NoRaw
  /\ lastPolled = Num(0)
  /\ budget = b
  /\ timers = k
  /\ refreshInterval = DefaultRefreshMs
  /\ inflight = << >>

(***************************************************************************)
(* SpecNormalizer: processBurnEvent on every payload over FieldValues,     *)
(* delivered by the one topic that subscribed.                             *)
(***************************************************************************)
InitNormalizer ==
  /\ Started(<< 1 >>, StartedMetrics(Num(3), Num(3)), MaxNormEvents, 0)
  /\ applied = << >>

NextNormalizer == \E t \in Topics : \E event \in NormalizerEvents(t, StartMs) : DeliverEvent(event)

SpecNormalizer == InitNormalizer /\ [][NextNormalizer]_vars

(***************************************************************************)
(* SpecWarm: the first topic first delivers HistoryCap - 1 burn events of  *)
(* one DEEP each, one stamped every second up to startup; then every topic *)
(* delivers the events of Spec and the clock runs.                         *)
(***************************************************************************)
WarmCount == HistoryCap - 1

WarmRaw(k) ==
  RawEvent(1, "txA", Payload(OneDeep, Undefined, Undefined),
           StrV(DecimalString(StartMs - (WarmCount - k) * 1000)))

InitWarm ==
  /\ Started(<< 1, 2, 3 >>, StartedMetrics(Num(3), Num(3)), WarmCount + MaxWarmEvents, MaxTimers)
  /\ applied = << >>

WarmUp ==
  /\ Len(applied) < WarmCount
  /\ DeliverEvent(WarmRaw(Len(applied) + 1))

Stream ==
  /\ Len(applied) >= WarmCount
  /\ \E t \in Topics : \E event \in LedgerEvents(t) : DeliverEvent(event)

WarmTick ==
  /\ Len(applied) >= WarmCount
  /\ Tick

NextWarm == WarmUp \/ Stream \/ WarmTick

SpecWarm == InitWarm /\ [][NextWarm]_vars

(***************************************************************************)
(* SpecRefresh: the running watcher with one topic subscribed; the refresh *)
(* timer fires, fetches overlap each other and the burn events of the      *)
(* topic, the coin query is paged and the clock runs.                      *)
(***************************************************************************)
InitRefresh ==
  /\ Started(<< 1 >>, StartedMetrics(Num(3), Num(3)), MaxRefreshEvents, MaxRefreshTimers)
  /\ applied = << >>

NextRefresh ==
  \/ RefreshTick
  \/ \E i \in 1 .. Len(fetches) : SupplyResolved(i)
  \/ \E i \in 1 .. Len(fetches), tresp \in RefreshTreasuryResponses, cresp \in PagedCoinsResponses :
       FetchSettled(i, tresp, cresp)
  \/ \E event \in LedgerEvents(1) : DeliverEvent(event)
  \/ Tick

SpecRefresh == InitRefresh /\ [][NextRefresh]_vars

(***************************************************************************)
(* SpecCleanup: the watcher started by a caller that calls cleanup() at    *)
(* any time and any number of times before the process exits.              *)
(***************************************************************************)
\* cleanup(): calls this.unsubscribe if it is set.
Cleanup ==
  /\ pc \in {"fetching", "subscribing", "running"}
  /\ \A t \in Topics : unsubCalls[t] < MaxCleanups
  /\ unsubCalls' = [t \in Topics |-> unsubCalls[t] + Chained(t)]
  /\ UNCHANGED << inflight, refreshInterval, metrics, unsubscribe, pc, subIdx, fetches, refreshTimer, fallbackStarted,
                  lastTreasuryBalance, pollsInFlight, now, failedTopics, attempts,
                  applied, lastRaw, lastPolled, budget, timers >>

NextCleanup ==
  \/ Initialize
  \/ \E i \in 1 .. Len(fetches) : SupplyResolved(i)
  \/ \E i \in 1 .. Len(fetches), tresp \in RefreshTreasuryResponses, cresp \in CoinsResponses :
       FetchSettled(i, tresp, cresp)
  \/ SubscribeOk
  \/ SubscribeFail
  \/ Cleanup
  \/ Shutdown

SpecCleanup == Init /\ [][NextCleanup]_vars

(***************************************************************************)
(* SpecCli: the command's action under every --refresh option of           *)
(* CliOptions, through the first fetch and the subscription pass.          *)
(***************************************************************************)
NextCli ==
  \/ \E option \in CliOptions : Launch(option)
  \/ \E i \in 1 .. Len(fetches) : SupplyResolved(i)
  \/ \E i \in 1 .. Len(fetches), tresp \in RefreshTreasuryResponses, cresp \in CoinsResponses :
       FetchSettled(i, tresp, cresp)
  \/ SubscribeOk
  \/ SubscribeFail
  \/ Shutdown

SpecCli == Init /\ [][NextCli]_vars

(***************************************************************************)
(* SpecPoll: the fallback poller against a ledger whose treasury balance   *)
(* drops once, from 3 DEEP to 2 DEEP, one hour after startup.  Every       *)
(* getObject call succeeds; the ledger reads the balance when the call is  *)
(* made, and the responses of calls in flight together return in any       *)
(* order.                                                                  *)
(***************************************************************************)
\* The treasury balance on the ledger at time t, in DEEP.
LedgerBalanceAt(t) == IF t < StartMs + HourMs THEN 3 ELSE 2

\* The getObject response that carries balance b.
LedgerResponse(b) ==
  TreasuryResponse(TRUE, StrV(DecimalString(b * Pow10(DEEP_DECIMALS))), Undefined, Undefined)

InitPoll ==
  /\ Started(<< >>, StartedMetrics(Num(LedgerBalanceAt(StartMs)), Num(3)), MaxPollEvents, MaxPollTimers)
  /\ applied = << >>

\* The interval fires and the ledger reads the balance for the callback's call.
PollIssue ==
  /\ PollTick
  /\ inflight' = Append(inflight, LedgerBalanceAt(now))

\* The response of the k-th call in flight returns.
PollReturn(k) ==
  /\ PollResolved(LedgerResponse(inflight[k]))
  /\ inflight' = Remove(inflight, k)

NextPoll ==
  \/ PollIssue
  \/ \E k \in 1 .. Len(inflight) : PollReturn(k)
  \/ Tick

SpecPoll == InitPoll /\ [][NextPoll]_vars

(***************************************************************************)
(* Properties                                                              *)
(***************************************************************************)
Min(a, b) == IF a < b THEN a ELSE b

\* The sum of the amounts of events[i] for the i of keep in lo .. hi.
RECURSIVE SumOver(_, _, _, _)
SumOver(events, lo, hi, keep) ==
  IF lo > hi THEN Num(0)
  ELSE IF lo = hi THEN (IF lo \in keep THEN events[lo].amount ELSE Num(0))
  ELSE JsAdd(SumOver(events, lo, (lo + hi) \div 2, keep),
             SumOver(events, ((lo + hi) \div 2) + 1, hi, keep))

SumOfAll(events) == SumOver(events, 1, Len(events), 1 .. Len(events))

NonNegative(a) == ~a.nan /\ a.v >= 0

\* The step applies a burn event.
BurnApplied == Len(applied') = Len(applied) + 1

NewestApplied == applied[Len(applied)]

\* C1: totalBurned is the sum of the amounts of all events ever applied, and
\* no step makes it smaller.
C1_TotalBurnedIsMonotoneSum ==
  [][ /\ metrics'.totalBurned = SumOfAll(applied')
      /\ ~JsLt(metrics'.totalBurned, metrics.totalBurned) ]_vars

\* C2: burnEvents holds the newest-arrival events, newest first, and at most
\* HistoryCap of them: applying an event to a full history evicts exactly the
\* oldest arrival.
C2_HistoryKeepsNewest ==
  /\ Len(metrics.burnEvents) = Min(Len(applied), HistoryCap)
  /\ \A i \in 1 .. Len(metrics.burnEvents) :
       metrics.burnEvents[i] = applied[Len(applied) + 1 - i]

\* C2 witness: more events than HistoryCap have been applied, the history is full.
C2_Overflowed ==
  /\ Len(applied) > HistoryCap
  /\ Len(metrics.burnEvents) = HistoryCap

\* An event stamped ts is within 24 hours of time t: less than a day old.
Within24h(ts, t) == ~ts.nan /\ t - ts.v < DayMs

WindowSum(events, t) ==
  SumOver(events, 1, Len(events), { i \in 1 .. Len(events) : Within24h(events[i].timestamp, t) })

\* C3: right after a burn event is applied, burnRate24h is the sum of the
\* amounts of the retained events less than 24 hours old at that time.
C3_BurnRateIsWindowSum ==
  [][ BurnApplied => metrics'.burnRate24h = WindowSum(metrics'.burnEvents, now') ]_vars

\* C3 witness: the history holds an event stamped now, one stamped 23 hours
\* ago and one stamped 25 hours ago, past the eviction of the oldest arrival,
\* and burnRate24h is the sum without the last.
C3_WindowSplitsHistory ==
  /\ Len(applied) > HistoryCap
  /\ \E i, j, k \in 1 .. Len(metrics.burnEvents) :
       /\ metrics.burnEvents[i].timestamp = Num(now)
       /\ metrics.burnEvents[j].timestamp = Num(now - 23 * HourMs)
       /\ metrics.burnEvents[k].timestamp = Num(now - 25 * HourMs)
       /\ metrics.burnEvents[k].amount = Num(3)
  /\ metrics.burnRate24h = WindowSum(metrics.burnEvents, now)
  /\ metrics.burnRate24h = JsSub(SumOfAll(metrics.burnEvents), Num(3))

\* The amount of the first candidate field present in a payload, 0 when none is.
FirstPresentAmount(parsedJson) ==
  IF Present(parsedJson.amount) THEN ScaleRaw(parsedJson.amount)
  ELSE IF Present(parsedJson.value) THEN ScaleRaw(parsedJson.value)
  ELSE IF Present(parsedJson.burned_amount) THEN ScaleRaw(parsedJson.burned_amount)
  ELSE Num(0)

\* C4: the normalized amount is that of the first field present, in the
\* order amount, value, burned_amount.
C4_FirstPresentFieldWins ==
  lastRaw.topic # 0 => NewestApplied.amount = FirstPresentAmount(lastRaw.parsedJson)

\* C5: every stored event and every applied event has a finite amount >= 0.
C5_AmountsNonNegative ==
  /\ \A i \in 1 .. Len(applied) : NonNegative(applied[i].amount)
  /\ \A i \in 1 .. Len(metrics.burnEvents) : NonNegative(metrics.burnEvents[i].amount)

NoCandidateField(parsedJson) ==
  ~Present(parsedJson.amount) /\ ~Present(parsedJson.value) /\ ~Present(parsedJson.burned_amount)

\* C6: a raw event without any candidate field is applied as an event of
\* amount 0: it is prepended to burnEvents and becomes the last burn, and
\* totalBurned stays as it was.
C6_NoFieldYieldsZeroEvent ==
  [][ (BurnApplied /\ pollsInFlight' = pollsInFlight /\ NoCandidateField(lastRaw'.parsedJson)) =>
        /\ applied'[Len(applied')] =
             [ txId |-> TxId(lastRaw'.txDigest, 0), amount |-> Num(0),
               timestamp |-> ToNumber(lastRaw'.timestampMs),
               eventType |-> TREASURY_EVENTS[lastRaw'.topic] ]
        /\ Len(metrics'.burnEvents) = Min(Len(metrics.burnEvents) + 1, HistoryCap)
        /\ Head(metrics'.burnEvents) = applied'[Len(applied')]
        /\ metrics'.lastBurnTx = TxId(lastRaw'.txDigest, 0)
        /\ metrics'.lastBurnAmount = Num(0)
        /\ metrics'.lastBurnTimestamp = ToNumber(lastRaw'.timestampMs)
        /\ metrics'.totalBurned = metrics.totalBurned ]_vars

\* C6 witness: the empty payload has been delivered and stands in the history
\* with amount 0.
C6_EmptyPayloadApplied ==
  /\ lastRaw.topic # 0
  /\ NoCandidateField(lastRaw.parsedJson)
  /\ Len(metrics.burnEvents) = Len(applied)
  /\ Head(metrics.burnEvents).amount = Num(0)
  /\ metrics.lastBurnTx = TxId(lastRaw.txDigest, 0)

\* C7: a fallback cycle with previous balance p and fetched balance c applies
\* a burn event exactly when p - c > 0, of amount p - c and of the fallback's
\* own event type, and in either case leaves c as the previous balance.
C7_PollEmitsDecrease ==
  [][ pollsInFlight' < pollsInFlight =>
        /\ lastTreasuryBalance' = lastPolled'
        /\ IF JsGt(JsSub(lastTreasuryBalance, lastPolled'), Num(0))
           THEN /\ BurnApplied
                /\ applied'[Len(applied')].amount = JsSub(lastTreasuryBalance, lastPolled')
                /\ applied'[Len(applied')].eventType = FallbackMarker
                /\ Head(metrics'.burnEvents) = applied'[Len(applied')]
           ELSE /\ applied' = applied
                /\ metrics' = metrics ]_vars

\* C7 witness: the balance went from 3 to 2 and a burn of 1 was synthesized.
C7_DecreaseEmitted ==
  /\ metrics.burnEvents # << >>
  /\ Head(metrics.burnEvents).eventType = FallbackMarker
  /\ Head(metrics.burnEvents).amount = Num(1)
  /\ lastTreasuryBalance = Num(2)
  /\ lastPolled = Num(2)

\* C8: the fallback poller has been started once when the initial pass is over
\* and every topic failed in it, and not at all otherwise.  (The interval is
\* never cleared: nothing in the program keeps its handle.)
C8_FallbackOnceIffAllFailed ==
  fallbackStarted = (IF refreshTimer /\ failedTopics = Topics THEN 1 ELSE 0)

\* C8 witness: every topic failed and the fallback runs.
C8_AllFailedFallbackRuns ==
  /\ pc = "running"
  /\ failedTopics = Topics
  /\ fallbackStarted = 1

\* A further subscribeEvent call for topic t.
Reattempt(t) == Next /\ attempts'[t] = attempts[t] + 1

\* C9: once the initial pass is over, a topic whose subscription failed and
\* that is not subscribed has a retry pending.
C9_FailedTopicIsRetried ==
  \A t \in Topics :
    (pc = "running" /\ t \in failedTopics /\ t \notin Subscribed) => ENABLED Reattempt(t)

\* The topics whose subscribeEvent call has resolved or rejected.
ResolvedTopics ==
  IF refreshTimer THEN Topics
  ELSE IF subIdx > 0 THEN 1 .. (subIdx - 1)
  ELSE {}

\* C10: every topic is attempted whatever became of the others; a failure
\* neither stops the loop nor drops a subscription opened before it.
C10_TopicsAreIndependent ==
  /\ \A t \in Topics : attempts[t] = (IF t \in ResolvedTopics \/ t = subIdx THEN 1 ELSE 0)
  /\ refreshTimer => \A t \in Topics : attempts[t] = 1
  /\ failedTopics \subseteq ResolvedTopics
  /\ Subscribed = ResolvedTopics \ failedTopics

\* C10 witness: the second topic failed; the first stays subscribed and the
\* third was attempted and subscribed.
C10_MiddleFailureOnly ==
  /\ pc = "running"
  /\ failedTopics = {2}
  /\ Subscribed = {1, 3}

\* C11: when a query of a refresh fails, the snapshot field it feeds keeps its
\* value, and the fields whose queries succeeded are updated; a failed query of
\* a fallback poll leaves treasuryBalance as it was.
C11_FailedQueryKeepsField ==
  [][ /\ \A i \in 1 .. Len(fetches), tresp \in RefreshTreasuryResponses, cresp \in PagedCoinsResponses :
           FetchSettled(i, tresp, cresp) =>
             /\ metrics'.treasuryBalance =
                  (IF tresp.ok THEN TreasuryBalanceOf(tresp) ELSE metrics.treasuryBalance)
             /\ metrics'.circulatingSupply =
                  (IF cresp.ok THEN CirculatingSupplyOf(cresp) ELSE metrics.circulatingSupply)
      /\ \A resp \in TreasuryResponses :
           (PollResolved(resp) /\ ~resp.ok) => metrics'.treasuryBalance = metrics.treasuryBalance ]_vars

\* The step ends a fetchAllMetrics call: Promise.all resolved and the snapshot
\* was assigned.
RefreshApplied == Len(fetches') < Len(fetches)

\* C12 as stated: a refresh leaves every burn-derived field unchanged,
\* burnRate24h included.
C12_RefreshKeepsBurnFields ==
  [][ RefreshApplied =>
        /\ metrics'.totalBurned = metrics.totalBurned
        /\ metrics'.burnRate24h = metrics.burnRate24h
        /\ metrics'.burnEvents = metrics.burnEvents
        /\ metrics'.lastBurnTx = metrics.lastBurnTx
        /\ metrics'.lastBurnAmount = metrics.lastBurnAmount
        /\ metrics'.lastBurnTimestamp = metrics.lastBurnTimestamp ]_vars

\* C12 amended: a refresh leaves totalBurned, burnEvents and the last-burn
\* fields unchanged, and sets burnRate24h to the sum of the amounts of the
\* unchanged burnEvents that are less than 24 hours old at the time of the
\* refresh.
C12_RefreshRecomputesRateOnly ==
  [][ RefreshApplied =>
        /\ metrics'.totalBurned = metrics.totalBurned
        /\ metrics'.burnEvents = metrics.burnEvents
        /\ metrics'.lastBurnTx = metrics.lastBurnTx
        /\ metrics'.lastBurnAmount = metrics.lastBurnAmount
        /\ metrics'.lastBurnTimestamp = metrics.lastBurnTimestamp
        /\ metrics'.burnRate24h = WindowSum(metrics.burnEvents, now') ]_vars

\* C12 witness: the burn of 2 DEEP stamped 23 hours before startup is in the
\* history, an hour has passed and a refresh has run since: the event has
\* left the window, and the other burn-derived fields still show it.
C12_RefreshAfterWindowMoved ==
  /\ fetches = << >>
  /\ timers = 0
  /\ now = StartMs + HourMs
  /\ Len(metrics.burnEvents) = 1
  /\ metrics.burnEvents[1].timestamp = Num(StartMs - 23 * HourMs)
  /\ metrics.totalBurned = Num(2)
  /\ metrics.lastBurnAmount = Num(2)
  /\ metrics.burnRate24h = Num(0)

\* C13 as stated: applying a burn event, from a subscription or from the
\* fallback poller, leaves currentSupply, circulatingSupply and
\* treasuryBalance unchanged.
C13_BurnKeepsAbsoluteFields ==
  [][ BurnApplied =>
        /\ metrics'.currentSupply = metrics.currentSupply
        /\ metrics'.circulatingSupply = metrics.circulatingSupply
        /\ metrics'.treasuryBalance = metrics.treasuryBalance ]_vars

\* C13 amended: applying a burn event leaves circulatingSupply and
\* treasuryBalance unchanged and takes the event's amount off currentSupply;
\* circulatingSupply and treasuryBalance change only in a refresh, and
\* currentSupply only in a refresh or with a burn event.
C13_BurnTakesAmountOffSupplyOnly ==
  [][ /\ BurnApplied =>
           /\ metrics'.circulatingSupply = metrics.circulatingSupply
           /\ metrics'.treasuryBalance = metrics.treasuryBalance
           /\ metrics'.currentSupply = JsSub(metrics.currentSupply, applied'[Len(applied')].amount)
      /\ ( \/ metrics'.circulatingSupply # metrics.circulatingSupply
           \/ metrics'.treasuryBalance # metrics.treasuryBalance ) => RefreshApplied
      /\ metrics'.currentSupply # metrics.currentSupply => (RefreshApplied \/ BurnApplied) ]_vars

\* C13 witness: the fallback poller has applied a burn of 1 DEEP; the
\* treasury balance and the circulating supply of the snapshot are those of the
\* refresh, the supply is 1 DEEP less.
C13_PolledBurnOffSupply ==
  /\ Len(applied) = 1
  /\ applied[1].eventType = FallbackMarker
  /\ applied[1].amount = Num(1)
  /\ metrics.treasuryBalance = Num(3)
  /\ metrics.circulatingSupply = Num(3)
  /\ metrics.currentSupply = Num(InitialSupply - 1)

\* C14: every snapshot handed to displayMetrics, at the end of a refresh or of
\* the application of a burn event, has burnRate24h equal to the sum over the
\* whole current burnEvents of the amounts less than 24 hours old, the
\* last-burn fields equal to those of burnEvents[0] if there is one, and at
\* most HistoryCap events.
C14_DisplayedSnapshotConsistent ==
  [][ (RefreshApplied \/ BurnApplied) =>
        /\ metrics'.burnRate24h = WindowSum(metrics'.burnEvents, now')
        /\ Len(metrics'.burnEvents) <= HistoryCap
        /\ metrics'.burnEvents # << >> =>
             /\ metrics'.lastBurnTx = metrics'.burnEvents[1].txId
             /\ metrics'.lastBurnAmount = metrics'.burnEvents[1].amount
             /\ metrics'.lastBurnTimestamp = metrics'.burnEvents[1].timestamp ]_vars

\* C14 witness: a burn of 1 DEEP was applied while a fetchAllMetrics call was
\* suspended with the supply already read; the call has since assigned the
\* snapshot, whose supply is the one read before the burn.
C14_BurnDuringRefresh ==
  /\ fetches = << >>
  /\ Len(applied) = 1
  /\ metrics.totalBurned = Num(1)
  /\ metrics.burnRate24h = Num(1)
  /\ metrics.lastBurnAmount = Num(1)
  /\ metrics.currentSupply = Num(InitialSupply)

\* The topics whose subscribeEvent call has resolved: the subscriptions opened.
OpenedTopics == ResolvedTopics \ failedTopics

\* C15: when the program has shut down, cleanup() has called the unsubscribe
\* function of every subscription that was opened, whatever subset of the
\* topics that is, and has called nothing when none was.
C15_CleanupReleasesOpened ==
  pc = "exited" =>
    \A t \in Topics : unsubCalls[t] = (IF t \in OpenedTopics THEN 1 ELSE 0)

\* C15 witness: shut down with the first and the third topic subscribed and
\* the second failed; both subscriptions were released.
C15_TwoOfThreeReleased ==
  /\ pc = "exited"
  /\ failedTopics = {2}
  /\ OpenedTopics = {1, 3}
  /\ unsubCalls = << 1, 0, 1 >>

\* C16: however often cleanup() is called, the unsubscribe function of a
\* subscription is called at most once.
C16_CleanupIdempotent == \A t \in Topics : unsubCalls[t] <= 1

\* The option asks for a refresh interval below the floor.
BelowFloor(option) ==
  option # << >> /\ ~RequestedInterval(option).nan /\ RequestedInterval(option).v < RefreshFloorMs

\* C17: the refresh interval in effect is never below the floor, and a
\* requested interval below the floor is replaced by the floor itself.
C17_BelowFloorBecomesFloor ==
  [][ /\ refreshInterval' >= RefreshFloorMs
      /\ \A option \in CliOptions :
           (Launch(option) /\ BelowFloor(option)) => refreshInterval' = RefreshFloorMs ]_vars

\* The sum of the balances of every coin the ledger holds: those of the page
\* the response carries and those of the pages after it.
AllPagesSum(resp) == SumCoins(resp.data \o NextPages(resp), Num(0))

\* C18: the circulating supply a refresh writes after a successful coin query
\* is the sum of the balances over every page.
C18_CirculatingSumsEveryPage ==
  [][ \A i \in 1 .. Len(fetches), tresp \in RefreshTreasuryResponses, cresp \in PagedCoinsResponses :
        (FetchSettled(i, tresp, cresp) /\ cresp.ok) =>
          metrics'.circulatingSupply = AllPagesSum(cresp) ]_vars

\* C19: a burn event goes to the head of burnEvents when it is applied and
\* the events already there keep their order behind it, whatever the
\* timestamps: a later arrival is always nearer the head.
C19_LaterArrivalNearerHead ==
  [][ BurnApplied =>
        /\ metrics'.burnEvents[1] = applied'[Len(applied')]
        /\ \A i \in 1 .. (Len(metrics'.burnEvents) - 1) :
             metrics'.burnEvents[i + 1] = metrics.burnEvents[i] ]_vars

\* C19 witness: the event at the head, the last to arrive, is stamped 25
\* hours before startup; the one behind it arrived earlier and has a later
\* timestamp.
C19_OlderStampAtHead ==
  /\ Len(metrics.burnEvents) >= 2
  /\ metrics.burnEvents[1] = applied[Len(applied)]
  /\ metrics.burnEvents[1].timestamp = Num(StartMs - 25 * HourMs)
  /\ JsLt(metrics.burnEvents[1].timestamp, metrics.burnEvents[2].timestamp)

\* C20: a poll cycle whose treasury query fails applies no burn event and
\* leaves the remembered previous balance as it was.
C20_FailedPollEmitsNothing ==
  [][ \A resp \in TreasuryResponses :
        (PollResolved(resp) /\ ~resp.ok) =>
          /\ applied' = applied
          /\ metrics' = metrics
          /\ lastTreasuryBalance' = lastTreasuryBalance ]_vars

\* Every burn event applied so far has a finite amount >= 0.
OnlyNonNegativeBurns == \A i \in 1 .. Len(applied) : NonNegative(applied[i].amount)

\* The first fetchAllMetrics call has assigned the snapshot: initialize() went
\* on to the subscribeEvent call for the first topic.
FirstRefreshOver == attempts[1] > 0

\* C21: once the first refresh is over, and as long as no burn event had a
\* negative or non-numeric amount, currentSupply + totalBurned is the initial
\* supply in every state.
C21_SupplyPlusBurnedIsInitial ==
  (FirstRefreshOver /\ OnlyNonNegativeBurns) =>
    JsAdd(metrics.currentSupply, metrics.totalBurned) = Num(InitialSupply)

\* The sum of the amounts of the burn events the fallback poller synthesized.
SynthesizedSum ==
  SumOver(applied, 1, Len(applied), { i \in 1 .. Len(applied) : applied[i].eventType = FallbackMarker })

\* C22: the burn events the fallback poller synthesized never add up to more
\* than the treasury balance has gone down on the ledger since the fallback
\* was started.
C22_DecreaseCountedOnce ==
  fallbackStarted > 0 =>
    ~JsGt(SynthesizedSum, Num(LedgerBalanceAt(StartMs) - LedgerBalanceAt(now)))

====
